---- MODULE Spec2Model ----
(***************************************************************************)
(* The to-do list HTTP server of src/main.go: the global map taskLists,    *)
(* the global mutex mu, and one goroutine per request running handleLists  *)
(* or handleListOperations.  Every statement of a handler that touches the *)
(* shared map is a step of its own, so that what the mutex protects is     *)
(* visible in the model.                                                   *)
(***************************************************************************)
EXTENDS Integers, Sequences, FiniteSets, TLC

\* ---------------------------------------------------------------- bounds
\* Longest list the requests of the model build.
MaxLen == 2

\* Add-task requests of a run of adds alone.
MaxAdds == 3

\* Request goroutines of the concurrent server, and of a server that is
\* given one request at a time.
Procs == {1, 2}
OneProc == {1}
AddProcs == {1, 2, 3}

Names == {"work", "home"}
Descriptions == {"milk"}
Methods == {"GET", "POST", "PUT", "DELETE"}

\* ---------------------------------------------------------- status codes
StatusOK == 200
StatusBadRequest == 400
StatusNotFound == 404
StatusMethodNotAllowed == 405
StatusConflict == 409

\* ------------------------------------------------------------ data types
\* type Task struct { Description string; Status bool }
Task(d, s) == [Description |-> d, Status |-> s]

\* var t Task: the zero value
ZeroTask == Task("", FALSE)

\* make(map[string][]Task)
EmptyMap == [n \in {} |-> <<>>]

\* m[name] of a Go map: the zero value (a nil slice) when the key is absent
Lookup(m, name) == IF name \in DOMAIN m THEN m[name] ELSE <<>>

\* A lookup that never finds the key.
NeverExists(m, name) == FALSE

\* _, exists := m[name]
Exists(m, name) == name \in DOMAIN m

\* The new task put first.
PrependTask(tasks, t) == <<t>> \o tasks

\* append(tasks, t)
AppendTask(tasks, t) == Append(tasks, t)

\* m[name] = v of a Go map
MapAssign(m, name, v) ==
    [n \in DOMAIN m \cup {name} |-> IF n = name THEN v ELSE m[n]]

\* ---------------------------------------------------------- strconv.Atoi
DigitChars == <<"0", "1", "2", "3", "4", "5", "6", "7", "8", "9">>

IsDigit(c) == \E k \in 1..Len(DigitChars) : DigitChars[k] = c

DigitVal(c) == (CHOOSE k \in 1..Len(DigitChars) : DigitChars[k] = c) - 1

RECURSIVE DigitsVal(_)
DigitsVal(s) ==
    IF s = <<>> THEN 0
    ELSE 10 * DigitsVal(SubSeq(s, 1, Len(s) - 1)) + DigitVal(s[Len(s)])

\* A path segment is a sequence of characters; Atoi takes an optional sign
\* and then only digits, at least one.
Atoi(s) ==
    LET signed == Len(s) > 0 /\ s[1] \in {"+", "-"}
        ds == IF signed THEN Tail(s) ELSE s
    IN  IF ds = <<>> \/ \E i \in 1..Len(ds) : ~IsDigit(ds[i])
        THEN [err |-> TRUE, val |-> 0]
        ELSE [err |-> FALSE,
              val |-> IF s[1] = "-" THEN 0 - DigitsVal(ds) ELSE DigitsVal(ds)]

\* ------------------------------------------------------------------ JSON
\* A request body: malformed, or an object that may leave "status" out.
Bodies ==
    {[valid |-> FALSE, description |-> "", hasStatus |-> FALSE, status |-> FALSE]}
    \cup {[valid |-> TRUE, description |-> d, hasStatus |-> FALSE, status |-> FALSE]
            : d \in Descriptions}
    \cup {[valid |-> TRUE, description |-> d, hasStatus |-> TRUE, status |-> s]
            : d \in Descriptions, s \in BOOLEAN}

NoBody == [valid |-> FALSE, description |-> "", hasStatus |-> FALSE, status |-> FALSE]

\* json.NewDecoder(r.Body).Decode(&t): a field the object leaves out keeps
\* the zero value of t.
Decode(b) ==
    [err |-> ~b.valid,
     t |-> IF b.valid
           THEN Task(b.description, IF b.hasStatus THEN b.status ELSE ZeroTask.Status)
           ELSE ZeroTask]

\* json encoding of a Task, by its field tags
EncodeTask(t) == [description |-> t.Description, status |-> t.Status]

\* json encoding of a []Task
EncodeTasks(ts) == [i \in 1..Len(ts) |-> EncodeTask(ts[i])]

\* json encoding of the map[string][]Task
EncodeLists(m) == [n \in DOMAIN m |-> EncodeTasks(m[n])]

\* What a handler has written to its ResponseWriter: the status code, the
\* message or error text, the value the message echoes ("list" or "task"),
\* and the encoded tasks or lists of the two GET operations.
Response(code, text, arg, tasks, lists) ==
    [code |-> code, text |-> text, arg |-> arg, tasks |-> tasks, lists |-> lists]

NoResponse == Response(0, "", "", <<>>, EmptyMap)

\* -------------------------------------------------------------- requests
\* The third path segment of the requests: the decimal of 0..MaxLen+1, a
\* negative number, a signed one, a non-number and the empty segment.
Itoa(k) == <<DigitChars[k + 1]>>

IndexSegments ==
    {Itoa(k) : k \in 0..(MaxLen + 1)} \cup {<<"-", "1">>, <<"+", "1">>, <<"x">>, <<>>}

\* strings.Split(strings.TrimPrefix(path, "/lists/"), "/")
PathParts ==
    {<<"">>, <<"", "tasks">>}
    \cup {<<n>> : n \in Names}
    \cup {<<n, s>> : n \in Names, s \in {"tasks", "other"}}
    \cup {<<n, "tasks", i>> : n \in Names, i \in IndexSegments}
    \cup {<<n, "other", Itoa(1)>> : n \in Names}
    \cup {<<n, "tasks", Itoa(1), "more">> : n \in Names}

\* Requests of the route "/lists"
ListsRequests == {[method |-> m] : m \in Methods}

\* Requests of the route "/lists/": only POST .../tasks reads its body.
ListOpRequests ==
    {[method |-> m, parts |-> ps, body |-> NoBody] : m \in Methods, ps \in PathParts}
    \cup {[method |-> "POST", parts |-> <<n, "tasks">>, body |-> b]
            : n \in Names, b \in Bodies}

\* The requests under /lists/ that name one list: every method on every
\* path shape, with the index segments 0..MaxLen+1.
RequestsOn(names) ==
    {[method |-> m, parts |-> ps, body |-> NoBody]
        : m \in Methods,
          ps \in {<<n>> : n \in names}
                 \cup {<<n, "tasks">> : n \in names}
                 \cup {<<n, "tasks", Itoa(k)>> : n \in names, k \in 0..(MaxLen + 1)}}
    \cup {[method |-> "POST", parts |-> <<n, "tasks">>, body |-> b]
            : n \in names, b \in Bodies}

\* The requests the concurrent server is given: those on the list "work".
ConcRequests == RequestsOn({"work"})

\* ----------------------------------------------------------------- state
VARIABLES
    taskLists,  \* the global map[string][]Task
    mu,         \* the global sync.Mutex: TRUE when locked
    pc,         \* pc[p]: the statement goroutine p is at
    locked,     \* locked[p]: p has run mu.Lock() and its deferred Unlock is pending
    loc,        \* loc[p]: the local variables of p's handler
    resp,       \* resp[p]: what p's handler has written to its ResponseWriter
    obs,        \* obs[p]: history of p's request (what it saw when it took the lock)
    seq,        \* history: the store of the one-at-a-time execution
    last,       \* history: the last successful add or toggle, while its list is untouched
    sent,       \* history of a run of add-task requests: the store it began with, the tasks sent
    creates,    \* history: creates[n] is the number of create-list requests answered 200 for n
    console     \* the console variant: its place in main's loop, its locals, its history

vars == <<taskLists, mu, pc, locked, loc, resp, obs, seq, last, sent, creates, console>>

\* The local variables of a handler: the case of the switch it runs (op),
\* listName, index, t, tasks, and the status and text it is about to write;
\* seg is parts[2] and body is r.Body in the cases that read them; route,
\* method and parts are the pattern that matched, r.Method and parts.
Locals(op, listName, index, t, tasks, code, text) ==
    [op |-> op, listName |-> listName, index |-> index, t |-> t,
     tasks |-> tasks, code |-> code, text |-> text, seg |-> <<>>, body |-> NoBody,
     route |-> "", method |-> "", parts |-> <<>>]

\* The handler with the path segment, or the body, it has parsed.
WithSeg(l, seg) == [l EXCEPT !.seg = seg]

WithBody(l, body) == [l EXCEPT !.body = body]

\* The handler of a request with method on route, its path split in parts.
WithReq(l, route, method, parts) ==
    [l EXCEPT !.route = route, !.method = method, !.parts = parts]

NoLocals == Locals("none", "", 0, ZeroTask, <<>>, 0, "")

\* A handler that goes on to the store, and one that has its answer already.
Accept(op, listName, index, t) == Locals(op, listName, index, t, <<>>, 0, "")

Reject(op, listName, index, code, text) ==
    Locals(op, listName, index, ZeroTask, <<>>, code, text)

NoLast == [op |-> "none", listName |-> "", index |-> 0, t |-> ZeroTask, before |-> <<>>]

NoneSent == [start |-> EmptyMap, adds |-> <<>>]

NoObs == [pre |-> EmptyMap, changed |-> FALSE, expect |-> NoResponse, prev |-> NoLast]

\* The console program not running: its locals choice, listName, task and
\* the lookup's exists; pre is the store when choice was read, made the
\* names createTaskList has stored.
NoConsole ==
    [pc |-> "off", choice |-> "", listName |-> "", task |-> "", exists |-> FALSE,
     pre |-> EmptyMap, made |-> {}]

\* --------------------------------------------------------------- routing
\* Every method served as GET.
RouteAnyMethod(r) == Accept("listall", "", 0, ZeroTask)

\* handleLists: the switch on r.Method
RouteLists(r) ==
    IF r.method = "GET"
    THEN Accept("listall", "", 0, ZeroTask)
    ELSE Reject("badmethod", "", 0, StatusMethodNotAllowed, "Method not allowed")

\* The test for err alone.
ParseIndexAnySign(seg) ==
    LET a == Atoi(seg)
    IN  [bad |-> a.err, index |-> a.val]

\* strconv.Atoi(parts[2]) and the test err != nil || index < 1
ParseIndex(seg) ==
    LET a == Atoi(seg)
    IN  [bad |-> a.err \/ a.val < 1, index |-> a.val]

\* handleListOperations up to the first statement under the lock
RouteListOp(r) ==
    LET parts == r.parts
    IN  IF Len(parts) < 1 \/ parts[1] = ""
        THEN Reject("noname", "", 0, StatusBadRequest, "List name required")
        ELSE
        LET listName == parts[1]
        IN  CASE Len(parts) = 1 /\ r.method = "POST" ->
                    Accept("create", listName, 0, ZeroTask)
              [] Len(parts) = 2 /\ parts[2] = "tasks" /\ r.method = "GET" ->
                    Accept("get", listName, 0, ZeroTask)
              [] Len(parts) = 2 /\ parts[2] = "tasks" /\ r.method = "POST" ->
                    LET d == Decode(r.body)
                    IN  WithBody(IF d.err
                                 THEN Reject("add", listName, 0, StatusBadRequest,
                                             "Invalid task data")
                                 ELSE Accept("add", listName, 0, d.t),
                                 r.body)
              [] Len(parts) = 3 /\ parts[2] = "tasks" /\ r.method = "PUT" ->
                    LET i == ParseIndex(parts[3])
                    IN  WithSeg(IF i.bad
                                THEN Reject("toggle", listName, i.index, StatusBadRequest,
                                            "Invalid task index")
                                ELSE Accept("toggle", listName, i.index, ZeroTask),
                                parts[3])
              [] Len(parts) = 3 /\ parts[2] = "tasks" /\ r.method = "DELETE" ->
                    LET i == ParseIndex(parts[3])
                    IN  WithSeg(IF i.bad
                                THEN Reject("delete", listName, i.index, StatusBadRequest,
                                            "Invalid task index")
                                ELSE Accept("delete", listName, i.index, ZeroTask),
                                parts[3])
              [] OTHER -> Reject("default", listName, 0, StatusNotFound, "Not found")

\* ------------------------------------------------- the statements on slices
\* A Lock that does not wait.
NeverWaits(m) == TRUE

\* mu.Lock() returns only when the mutex is unlocked
MutexFree(m) == ~m

\* A handler that returns with the mutex as it was.
UnlockMissing(m, held) == m

\* The deferred mu.Unlock() of a handler that ran mu.Lock(): the mutex is
\* unlocked at return; a handler that never locked has deferred nothing.
Unlock(m, held) == IF held THEN FALSE ELSE m

\* The status set to completed, not negated.
SetDone(tasks, index) == [tasks EXCEPT ![index].Status = TRUE]

\* The status negated at index and at every position after it.
FlipFrom(tasks, index) ==
    [j \in 1..Len(tasks) |->
        IF j >= index THEN [tasks[j] EXCEPT !.Status = ~@] ELSE tasks[j]]

\* tasks[index-1].Status = !tasks[index-1].Status
Flip(tasks, index) == [tasks EXCEPT ![index].Status = ~@]

\* No element copied.
ShiftNone(tasks, index) == tasks

\* The array of tasks after append(tasks[:index-1], tasks[index:]...) has
\* copied the tail one place to the left: the last element is there twice.
ShiftLeft(tasks, index) ==
    [j \in 1..Len(tasks) |->
        IF j < index THEN tasks[j]
        ELSE IF j < Len(tasks) THEN tasks[j + 1] ELSE tasks[j]]

\* tasks[:index-1] alone: the task at index and all after it dropped.
Truncate(tasks, index) == SubSeq(tasks, 1, index - 1)

\* append(tasks[:index-1], tasks[index:]...): the slice of that array that
\* is one shorter
Remove(tasks, index) == SubSeq(ShiftLeft(tasks, index), 1, Len(tasks) - 1)

\* The test off by one: the last index refused.
OutOfRangeEarly(index, tasks) == index >= Len(tasks)

\* index > len(tasks)
OutOfRange(index, tasks) == index > Len(tasks)

\* What the slice cur shows after elements of its array were overwritten
\* with arr: a slice of the same array sees the writes, up to its own length.
InPlace(cur, arr) ==
    [j \in 1..Len(cur) |-> IF j <= Len(arr) THEN arr[j] ELSE cur[j]]

\* The map after a write through a slice of taskLists[name]'s array.
WriteThrough(m, name, arr) ==
    IF name \in DOMAIN m THEN [m EXCEPT ![name] = InPlace(m[name], arr)] ELSE m

\* json.NewEncoder(w).Encode(data) for the data of each operation
Encoded(l, m) ==
    CASE l.code # StatusOK -> Response(l.code, l.text, "", <<>>, EmptyMap)
      [] l.op = "listall"  -> Response(l.code, "", "", <<>>, EncodeLists(m))
      [] l.op = "get"      -> Response(l.code, "", "", EncodeTasks(l.tasks), EmptyMap)
      [] l.op = "create"   -> Response(l.code, l.text, l.listName, <<>>, EmptyMap)
      [] l.op = "add"      -> Response(l.code, l.text, l.t.Description, <<>>, EmptyMap)
      [] OTHER             -> Response(l.code, l.text, "", <<>>, EmptyMap)

\* ------------------------------------------- one request at a time
\* The whole critical section of handler l.op run on store m without
\* interruption: the store it leaves and the response it writes.
SeqApply(m, l) ==
    LET out(store, code, text, tasks) ==
            [store |-> store,
             resp |-> Encoded([l EXCEPT !.code = code, !.text = text, !.tasks = tasks],
                              store)]
        name == l.listName
        cur == Lookup(m, name)
    IN  CASE l.op = "listall" -> out(m, StatusOK, "", <<>>)
          [] l.op = "create" ->
                IF Exists(m, name)
                THEN out(m, StatusConflict, "Task list already exists", <<>>)
                ELSE out(MapAssign(m, name, <<>>), StatusOK, "Task list created", <<>>)
          [] l.op = "get" ->
                IF ~Exists(m, name)
                THEN out(m, StatusNotFound, "Task list not found", <<>>)
                ELSE out(m, StatusOK, "", cur)
          [] l.op = "add" ->
                out(MapAssign(m, name, AppendTask(cur, l.t)), StatusOK, "Task added", <<>>)
          [] l.op = "toggle" ->
                IF ~Exists(m, name)
                THEN out(m, StatusNotFound, "Task list not found", <<>>)
                ELSE IF OutOfRange(l.index, cur)
                THEN out(m, StatusBadRequest, "Task index out of range", cur)
                ELSE out(MapAssign(m, name, Flip(cur, l.index)), StatusOK,
                         "Task status toggled", Flip(cur, l.index))
          [] l.op = "delete" ->
                IF ~Exists(m, name)
                THEN out(m, StatusNotFound, "Task list not found", <<>>)
                ELSE IF OutOfRange(l.index, cur)
                THEN out(m, StatusBadRequest, "Task index out of range", cur)
                ELSE out(MapAssign(m, name, Remove(cur, l.index)), StatusOK,
                         "Task deleted", Remove(cur, l.index))

\* -------------------------------------------------------------- handlers
Set(f, p, v) == [f EXCEPT ![p] = v]

\* The requests of the model never build a list longer than MaxLen: an
\* add-task is taken up only while the list and the adds under way leave room.
PendingAdds(name) ==
    Cardinality({q \in DOMAIN pc :
        /\ loc[q].op = "add" /\ loc[q].listName = name
        /\ pc[q] \in {"lock", "add_read", "add_assign"}})

WithinBounds(l) ==
    (l.op = "add" /\ l.code = 0)
        => Len(Lookup(taskLists, l.listName)) + PendingAdds(l.listName) < MaxLen

\* The statement after mu.Lock(); defer mu.Unlock() in each case
FirstStep(op) ==
    CASE op = "listall" -> "listall"
      [] op = "create"  -> "create_check"
      [] op = "get"     -> "get_check"
      [] op = "add"     -> "add_read"
      [] op = "toggle"  -> "toggle_check"
      [] op = "delete"  -> "delete_check"

\* The handler has its locals l: it answers at once or goes for the lock.
Begin(p, l) ==
    /\ pc' = Set(pc, p, IF l.code = 0 THEN "lock" ELSE "write")
    /\ loc' = Set(loc, p, l)
    /\ UNCHANGED <<taskLists, mu, locked, resp, obs, seq, last, creates, console>>

\* The store changed in this step of p.
Touch(p) == obs' = [obs EXCEPT ![p].changed = @ \/ taskLists' # taskLists]

\* The next statement of p is at label to, with locals l.
Goto(p, to, l) ==
    /\ pc' = Set(pc, p, to)
    /\ loc' = Set(loc, p, l)

\* A request for /lists arrives and handleLists runs to its first
\* statement on shared state.
ServeLists(p) ==
    /\ pc[p] = "idle"
    /\ \E r \in ListsRequests :
            Begin(p, WithReq(RouteLists(r), "/lists", r.method, <<>>))
    /\ UNCHANGED sent

\* A request under /lists/ arrives and handleListOperations runs to its
\* first statement on shared state.
ServeListOp(p, requests) ==
    /\ pc[p] = "idle"
    /\ \E r \in requests :
            /\ WithinBounds(RouteListOp(r))
            /\ Begin(p, WithReq(RouteListOp(r), "/lists/", r.method, r.parts))
    /\ UNCHANGED sent

\* mu.Lock(); defer mu.Unlock()
Lock(p) ==
    /\ pc[p] = "lock"
    /\ MutexFree(mu)
    /\ mu' = TRUE
    /\ locked' = Set(locked, p, TRUE)
    /\ pc' = Set(pc, p, FirstStep(loc[p].op))
    /\ obs' = Set(obs, p, [pre |-> taskLists, changed |-> FALSE,
                           expect |-> SeqApply(seq, loc[p]).resp, prev |-> last])
    /\ seq' = SeqApply(seq, loc[p]).store
    /\ UNCHANGED <<taskLists, loc, resp, last, sent, creates, console>>

\* writeJSON(w, taskLists): the call; the map is read when it is encoded
ListAll(p) ==
    /\ pc[p] = "listall"
    /\ Goto(p, "write", [loc[p] EXCEPT !.code = StatusOK])
    /\ UNCHANGED <<taskLists, mu, locked, resp, obs, seq, last, sent, creates, console>>

\* if _, exists := taskLists[listName]; exists { http.Error(409); return }
CreateCheck(p) ==
    /\ pc[p] = "create_check"
    /\ IF Exists(taskLists, loc[p].listName)
       THEN Goto(p, "write", [loc[p] EXCEPT !.code = StatusConflict,
                                          !.text = "Task list already exists"])
       ELSE Goto(p, "create_assign", loc[p])
    /\ UNCHANGED <<taskLists, mu, locked, resp, obs, seq, last, sent, creates, console>>

\* taskLists[listName] = []Task{}
CreateAssign(p) ==
    /\ pc[p] = "create_assign"
    /\ taskLists' = MapAssign(taskLists, loc[p].listName, <<>>)
    /\ Goto(p, "write", [loc[p] EXCEPT !.code = StatusOK, !.text = "Task list created"])
    /\ Touch(p)
    /\ UNCHANGED <<mu, locked, resp, seq, last, sent, creates, console>>

\* A lookup that stores an empty list under a name it does not find.
GetCheckInserts(p) ==
    /\ pc[p] = "get_check"
    /\ IF ~Exists(taskLists, loc[p].listName)
       THEN /\ taskLists' = MapAssign(taskLists, loc[p].listName, <<>>)
            /\ Goto(p, "write", [loc[p] EXCEPT !.code = StatusNotFound,
                                               !.text = "Task list not found"])
       ELSE /\ taskLists' = taskLists
            /\ Goto(p, "write", [loc[p] EXCEPT !.code = StatusOK,
                                               !.tasks = taskLists[loc[p].listName]])
    /\ Touch(p)
    /\ UNCHANGED <<mu, locked, resp, seq, last, sent, creates, console>>

\* tasks, exists := taskLists[listName]; if !exists { http.Error(404); return }
GetCheck(p) ==
    /\ pc[p] = "get_check"
    /\ IF ~Exists(taskLists, loc[p].listName)
       THEN Goto(p, "write", [loc[p] EXCEPT !.code = StatusNotFound,
                                          !.text = "Task list not found"])
       ELSE Goto(p, "write", [loc[p] EXCEPT !.code = StatusOK,
                                          !.tasks = taskLists[loc[p].listName]])
    /\ UNCHANGED <<taskLists, mu, locked, resp, obs, seq, last, sent, creates, console>>

\* append(taskLists[listName], t): the read of the map
AddRead(p) ==
    /\ pc[p] = "add_read"
    /\ Goto(p, "add_assign", [loc[p] EXCEPT !.tasks = Lookup(taskLists, loc[p].listName)])
    /\ UNCHANGED <<taskLists, mu, locked, resp, obs, seq, last, sent, creates, console>>

\* taskLists[listName] = append(..., t)
AddAssign(p) ==
    /\ pc[p] = "add_assign"
    /\ taskLists' = MapAssign(taskLists, loc[p].listName,
                            AppendTask(loc[p].tasks, loc[p].t))
    /\ Goto(p, "write", [loc[p] EXCEPT !.code = StatusOK, !.text = "Task added",
                                       !.tasks = <<>>])
    /\ Touch(p)
    /\ UNCHANGED <<mu, locked, resp, seq, last, sent, creates, console>>

\* tasks, exists := taskLists[listName] and the two tests of toggle and delete
IndexCheck(p, at, to) ==
    /\ pc[p] = at
    /\ LET tasks == Lookup(taskLists, loc[p].listName)
       IN  IF ~Exists(taskLists, loc[p].listName)
           THEN Goto(p, "write", [loc[p] EXCEPT !.code = StatusNotFound,
                                              !.text = "Task list not found"])
           ELSE IF OutOfRange(loc[p].index, tasks)
           THEN Goto(p, "write", [loc[p] EXCEPT !.code = StatusBadRequest,
                                              !.text = "Task index out of range"])
           ELSE Goto(p, to, [loc[p] EXCEPT !.tasks = tasks])
    /\ UNCHANGED <<taskLists, mu, locked, resp, obs, seq, last, sent, creates, console>>

ToggleCheck(p) == IndexCheck(p, "toggle_check", "toggle_flip")

\* tasks[index-1].Status = !tasks[index-1].Status
ToggleFlip(p) ==
    /\ pc[p] = "toggle_flip"
    /\ LET flipped == Flip(loc[p].tasks, loc[p].index)
       IN  /\ taskLists' = WriteThrough(taskLists, loc[p].listName, flipped)
           /\ Goto(p, "toggle_assign", [loc[p] EXCEPT !.tasks = flipped])
    /\ Touch(p)
    /\ UNCHANGED <<mu, locked, resp, seq, last, sent, creates, console>>

\* taskLists[listName] = tasks
ToggleAssign(p) ==
    /\ pc[p] = "toggle_assign"
    /\ taskLists' = MapAssign(taskLists, loc[p].listName, loc[p].tasks)
    /\ Goto(p, "write", [loc[p] EXCEPT !.code = StatusOK, !.text = "Task status toggled",
                                       !.tasks = <<>>])
    /\ Touch(p)
    /\ UNCHANGED <<mu, locked, resp, seq, last, sent, creates, console>>

DeleteCheck(p) == IndexCheck(p, "delete_check", "delete_shift")

\* append(tasks[:index-1], tasks[index:]...): the copy within the array
DeleteShift(p) ==
    /\ pc[p] = "delete_shift"
    /\ taskLists' = WriteThrough(taskLists, loc[p].listName,
                                 ShiftLeft(loc[p].tasks, loc[p].index))
    /\ Goto(p, "delete_assign", [loc[p] EXCEPT !.tasks = Remove(loc[p].tasks, loc[p].index)])
    /\ Touch(p)
    /\ UNCHANGED <<mu, locked, resp, seq, last, sent, creates, console>>

\* taskLists[listName] = append(...)
DeleteAssign(p) ==
    /\ pc[p] = "delete_assign"
    /\ taskLists' = MapAssign(taskLists, loc[p].listName, loc[p].tasks)
    /\ Goto(p, "write", [loc[p] EXCEPT !.code = StatusOK, !.text = "Task deleted",
                                       !.tasks = <<>>])
    /\ Touch(p)
    /\ UNCHANGED <<mu, locked, resp, seq, last, sent, creates, console>>

\* writeJSON(w, data) or http.Error(w, text, code)
Write(p) ==
    /\ pc[p] = "write"
    /\ resp' = Set(resp, p, Encoded(loc[p], taskLists))
    /\ pc' = Set(pc, p, "ret")
    /\ creates' = IF loc[p].op = "create" /\ loc[p].code = StatusOK
                  THEN [creates EXCEPT ![loc[p].listName] = @ + 1]
                  ELSE creates
    /\ UNCHANGED <<taskLists, mu, locked, loc, obs, seq, last, sent, console>>

\* What the history keeps of a request that held the lock.
Remember(p) ==
    IF loc[p].op \in {"add", "toggle"} /\ resp[p].code = StatusOK
    THEN [op |-> loc[p].op, listName |-> loc[p].listName, index |-> loc[p].index,
          t |-> loc[p].t, before |-> Lookup(obs[p].pre, loc[p].listName)]
    ELSE IF loc[p].op = "listall" \/ loc[p].listName = last.listName
    THEN NoLast
    ELSE last

\* The handler returns: the deferred mu.Unlock() runs if there is one.
Return(p) ==
    /\ pc[p] = "ret"
    /\ mu' = Unlock(mu, locked[p])
    /\ locked' = Set(locked, p, FALSE)
    /\ pc' = Set(pc, p, "idle")
    /\ loc' = Set(loc, p, NoLocals)
    /\ resp' = Set(resp, p, NoResponse)
    /\ obs' = Set(obs, p, NoObs)
    /\ last' = IF locked[p] THEN Remember(p) ELSE last
    /\ UNCHANGED <<taskLists, seq, sent, creates, console>>

\* --------------------------------------------------------- specifications
InitOf(P) ==
    /\ taskLists = EmptyMap
    /\ mu = FALSE
    /\ pc = [p \in P |-> "idle"]
    /\ locked = [p \in P |-> FALSE]
    /\ loc = [p \in P |-> NoLocals]
    /\ resp = [p \in P |-> NoResponse]
    /\ obs = [p \in P |-> NoObs]
    /\ seq = EmptyMap
    /\ last = NoLast
    /\ sent = NoneSent
    /\ creates = [n \in Names |-> 0]
    /\ console = NoConsole

Init == InitOf(Procs)

\* The server with its request goroutines running concurrently.
Next ==
    \E p \in Procs :
        \/ ServeLists(p)
        \/ ServeListOp(p, ConcRequests)
        \/ Lock(p)
        \/ ListAll(p)
        \/ CreateCheck(p)
        \/ CreateAssign(p)
        \/ GetCheck(p)
        \/ AddRead(p)
        \/ AddAssign(p)
        \/ ToggleCheck(p)
        \/ ToggleFlip(p)
        \/ ToggleAssign(p)
        \/ DeleteCheck(p)
        \/ DeleteShift(p)
        \/ DeleteAssign(p)
        \/ Write(p)
        \/ Return(p)

Spec == Init /\ [][Next]_vars

\* The server given one request at a time, of every shape.
InitOne == InitOf(OneProc)

NextOne ==
    \E p \in OneProc :
        \/ ServeLists(p)
        \/ ServeListOp(p, ListOpRequests)
        \/ Lock(p)
        \/ ListAll(p)
        \/ CreateCheck(p)
        \/ CreateAssign(p)
        \/ GetCheck(p)
        \/ AddRead(p)
        \/ AddAssign(p)
        \/ ToggleCheck(p)
        \/ ToggleFlip(p)
        \/ ToggleAssign(p)
        \/ DeleteCheck(p)
        \/ DeleteShift(p)
        \/ DeleteAssign(p)
        \/ Write(p)
        \/ Return(p)

SpecOne == InitOne /\ [][NextOne]_vars

\* The statements of p's handler after mu.Lock().
Step(p) ==
    \/ ListAll(p)
    \/ CreateCheck(p)
    \/ CreateAssign(p)
    \/ GetCheck(p)
    \/ AddRead(p)
    \/ AddAssign(p)
    \/ ToggleCheck(p)
    \/ ToggleFlip(p)
    \/ ToggleAssign(p)
    \/ DeleteCheck(p)
    \/ DeleteShift(p)
    \/ DeleteAssign(p)
    \/ Write(p)
    \/ Return(p)

\* The scheduling of the concurrent server: a goroutine that can run its
\* next statement runs it in the end, and sync.Mutex hands the lock to a
\* goroutine that keeps waiting (its starvation mode), so a waiter is not
\* passed over for ever. No request has to arrive.
Fairness ==
    \A p \in Procs : WF_vars(Step(p)) /\ SF_vars(Lock(p))

\* One request of each operation on the list "work": with two of them in
\* flight every return under the lock happens (200, 409, 404, 400).
FairRequests ==
    {[method |-> "POST", parts |-> <<"work">>, body |-> NoBody],
     [method |-> "GET", parts |-> <<"work", "tasks">>, body |-> NoBody],
     [method |-> "PUT", parts |-> <<"work", "tasks", Itoa(1)>>, body |-> NoBody],
     [method |-> "DELETE", parts |-> <<"work", "tasks", Itoa(1)>>, body |-> NoBody]}
    \cup {[method |-> "POST", parts |-> <<"work", "tasks">>, body |-> b] : b \in Bodies}

NextFair ==
    \E p \in Procs :
        \/ ServeLists(p)
        \/ ServeListOp(p, FairRequests)
        \/ Lock(p)
        \/ ListAll(p)
        \/ CreateCheck(p)
        \/ CreateAssign(p)
        \/ GetCheck(p)
        \/ AddRead(p)
        \/ AddAssign(p)
        \/ ToggleCheck(p)
        \/ ToggleFlip(p)
        \/ ToggleAssign(p)
        \/ DeleteCheck(p)
        \/ DeleteShift(p)
        \/ DeleteAssign(p)
        \/ Write(p)
        \/ Return(p)

SpecFair == Init /\ [][NextFair]_vars /\ Fairness

\* A run of add-task requests alone, on lists that exist when it begins.
StartStores ==
    {[n \in Names |-> IF n = "work" THEN s ELSE <<>>]
        : s \in {<<>>, <<Task("milk", TRUE)>>}}

AddRequests ==
    {[method |-> "POST", parts |-> <<n, "tasks">>, body |-> b]
        : n \in Names, b \in Bodies}

ServeAdd(p) ==
    /\ pc[p] = "idle"
    /\ Len(sent.adds) < MaxAdds
    /\ \E r \in AddRequests :
            LET l == RouteListOp(r)
            IN  /\ l.code = 0
                /\ l.listName \in DOMAIN sent.start
                /\ Begin(p, l)
                /\ sent' = [sent EXCEPT !.adds = Append(@, [listName |-> l.listName,
                                                             t |-> l.t])]

InitAdds ==
    \E m \in StartStores :
        /\ taskLists = m
        /\ mu = FALSE
        /\ pc = [p \in AddProcs |-> "idle"]
        /\ locked = [p \in AddProcs |-> FALSE]
        /\ loc = [p \in AddProcs |-> NoLocals]
        /\ resp = [p \in AddProcs |-> NoResponse]
        /\ obs = [p \in AddProcs |-> NoObs]
        /\ seq = m
        /\ last = NoLast
        /\ sent = [start |-> m, adds |-> <<>>]
        /\ creates = [n \in Names |-> 1]
        /\ console = NoConsole

NextAdds ==
    \E p \in AddProcs :
        \/ ServeAdd(p)
        \/ Lock(p)
        \/ AddRead(p)
        \/ AddAssign(p)
        \/ Write(p)
        \/ Return(p)

SpecAdds == InitAdds /\ [][NextAdds]_vars

\* ------------------------------------------------- the console variant
\* The lines typed at the prompts: a choice of the menu, a list name, a task.
Choices == {"1", "2", "3", "4", "9"}
Typed == {"milk", "eggs"}

server == <<mu, pc, locked, loc, resp, obs, seq, last, sent, creates>>

\* A lookup whose exists is always true.
CommaOkAlways(m, name) == [tasks |-> Lookup(m, name), exists |-> TRUE]

\* tasks, exists := taskLists[listName]
CommaOk(m, name) == [tasks |-> Lookup(m, name), exists |-> name \in DOMAIN m]

\* The function called for choice; "4" returns from main, any other line
\* prints "Invalid choice" and loops.
Dispatch(choice) ==
    CASE choice = "1" -> "createTaskList"
      [] choice = "2" -> "addTasks"
      [] choice = "3" -> "printTasks"
      [] choice = "4" -> "exited"
      [] OTHER -> "menu"

\* The function returns to main's loop, with the locals it had.
Menu(listName, task, exists) ==
    console' = [console EXCEPT !.pc = "menu", !.listName = listName,
                               !.task = task, !.exists = exists]

\* main: the menu is printed, choice is read, the switch runs
ReadChoice ==
    /\ console.pc = "menu"
    /\ \E choice \in Choices :
            console' = [console EXCEPT !.pc = Dispatch(choice), !.choice = choice,
                                       !.listName = "", !.task = "", !.exists = FALSE,
                                       !.pre = taskLists]
    /\ UNCHANGED <<taskLists, server>>

createTaskList ==
    /\ console.pc = "createTaskList"
    /\ \E listName \in Names :
            IF Exists(taskLists, listName)
            THEN /\ taskLists' = taskLists
                 /\ Menu(listName, "", TRUE)
            ELSE /\ taskLists' = MapAssign(taskLists, listName, <<>>)
                 /\ console' = [console EXCEPT !.pc = "menu", !.listName = listName,
                                               !.made = @ \cup {listName}]
    /\ UNCHANGED server

addTasks ==
    /\ console.pc = "addTasks"
    /\ IF Cardinality(DOMAIN taskLists) = 0
       THEN /\ taskLists' = taskLists
            /\ Menu("", "", FALSE)
       ELSE \E listName \in Names :
                LET l == CommaOk(taskLists, listName)
                IN  IF ~l.exists
                    THEN /\ taskLists' = taskLists
                         /\ Menu(listName, "", FALSE)
                    ELSE \E task \in Typed :
                            /\ Len(l.tasks) < MaxLen
                            /\ taskLists' = MapAssign(taskLists, listName,
                                                      Append(l.tasks, task))
                            /\ Menu(listName, task, TRUE)
    /\ UNCHANGED server

printTasks ==
    /\ console.pc = "printTasks"
    /\ Menu("", "", FALSE)
    /\ UNCHANGED <<taskLists, server>>

InitConsole ==
    /\ taskLists = EmptyMap
    /\ mu = FALSE
    /\ pc = [p \in OneProc |-> "idle"]
    /\ locked = [p \in OneProc |-> FALSE]
    /\ loc = [p \in OneProc |-> NoLocals]
    /\ resp = [p \in OneProc |-> NoResponse]
    /\ obs = [p \in OneProc |-> NoObs]
    /\ seq = EmptyMap
    /\ last = NoLast
    /\ sent = NoneSent
    /\ creates = [n \in Names |-> 0]
    /\ console = [NoConsole EXCEPT !.pc = "menu"]

NextConsole ==
    \/ ReadChoice
    \/ createTaskList
    \/ addTasks
    \/ printTasks

SpecConsole == InitConsole /\ [][NextConsole]_vars

\* ================================================================ claims
\* p's handler has written its response and has not returned yet.
Answered(p, op) == pc[p] = "ret" /\ loc[p].op = op

\* Stores m1 and m2 have the same names, and the same tasks but for list name.
SameExcept(m1, m2, name) ==
    /\ DOMAIN m1 = DOMAIN m2
    /\ \A n \in DOMAIN m1 \ {name} : m1[n] = m2[n]

\* C1: an add-task with a decodable body on a list name that is absent
\* fails with NotFound and leaves the store unchanged; on a list that is
\* present it appends the task at the end of that list.
C1_AddNeedsList ==
    \A p \in DOMAIN pc :
        (Answered(p, "add") /\ locked[p]) =>
            LET name == loc[p].listName
                pre == obs[p].pre
            IN  IF name \in DOMAIN pre
                THEN /\ resp[p].code = StatusOK
                     /\ taskLists = MapAssign(pre, name, Append(pre[name], loc[p].t))
                ELSE /\ resp[p].code = StatusNotFound
                     /\ taskLists = pre

\* C2: at most one create of a name is answered 200, and a create that
\* finds the name present is answered 409 and leaves the store, the tasks
\* under that name included, as it was; one that finds it absent stores
\* the empty list.
C2_CreateOnce ==
    /\ \A n \in Names : creates[n] <= 1
    /\ \A p \in DOMAIN pc :
        Answered(p, "create") =>
            LET name == loc[p].listName
                pre == obs[p].pre
            IN  IF name \in DOMAIN pre
                THEN resp[p].code = StatusConflict /\ taskLists = pre
                ELSE resp[p].code = StatusOK /\ taskLists = MapAssign(pre, name, <<>>)

\* A create is answered 409 on a list that holds tasks, while another
\* create of that name is waiting for the lock.
C2_Witness ==
    \E p, q \in DOMAIN pc :
        /\ p # q
        /\ Answered(p, "create") /\ resp[p].code = StatusConflict
        /\ Len(taskLists[loc[p].listName]) > 0
        /\ creates[loc[p].listName] = 1
        /\ pc[q] = "lock" /\ loc[q].op = "create" /\ loc[q].listName = loc[p].listName

\* C3: on an existing list of N tasks, toggle and delete are answered 200
\* exactly for the indices 1..N; for every other index the handler fails
\* and has changed nothing in the store.
C3_IndexRange ==
    \A p \in DOMAIN pc :
        (Answered(p, "toggle") \/ Answered(p, "delete")) =>
            LET name == loc[p].listName
                base == IF locked[p] THEN obs[p].pre ELSE taskLists
            IN  name \in DOMAIN base =>
                    /\ resp[p].code = StatusOK <=> loc[p].index \in 1..Len(base[name])
                    /\ resp[p].code # StatusOK =>
                            /\ resp[p].code \in {StatusBadRequest, StatusNotFound}
                            /\ ~obs[p].changed
                            /\ locked[p] => taskLists = obs[p].pre

\* A delete with an index beyond the end of a list of two tasks is refused.
C3_Witness ==
    \E p \in DOMAIN pc :
        /\ Answered(p, "delete") /\ locked[p]
        /\ loc[p].listName \in DOMAIN obs[p].pre
        /\ Len(obs[p].pre[loc[p].listName]) = 2
        /\ loc[p].index = 3
        /\ resp[p].code = StatusBadRequest

\* C4: a delete answered 200 at index i of a list of N tasks leaves N-1
\* tasks: positions below i as they were, every position j from i on holds
\* the task that was at j+1, and the other lists are as they were.
C4_DeleteShifts ==
    \A p \in DOMAIN pc :
        (Answered(p, "delete") /\ resp[p].code = StatusOK) =>
            LET name == loc[p].listName
                i == loc[p].index
                old == obs[p].pre[name]
                new == taskLists[name]
            IN  /\ Len(new) = Len(old) - 1
                /\ \A j \in 1..(i - 1) : new[j] = old[j]
                /\ \A j \in i..(Len(old) - 1) : new[j] = old[j + 1]
                /\ SameExcept(taskLists, obs[p].pre, name)

\* The first of two different tasks has been deleted.
C4_Witness ==
    \E p \in DOMAIN pc :
        /\ Answered(p, "delete") /\ resp[p].code = StatusOK
        /\ loc[p].index = 1
        /\ Len(obs[p].pre[loc[p].listName]) = 2
        /\ obs[p].pre[loc[p].listName][1] # obs[p].pre[loc[p].listName][2]

\* The toggle p has been answered 200, and the operation on its list before
\* it was a toggle of the same index answered 200.
SecondToggle(p) ==
    /\ Answered(p, "toggle") /\ resp[p].code = StatusOK
    /\ obs[p].prev.op = "toggle"
    /\ obs[p].prev.listName = loc[p].listName
    /\ obs[p].prev.index = loc[p].index

\* C5: two toggles of the same index answered 200, with no operation on
\* that list between them, leave the list as it was before the first; the
\* second changes no other list.
C5_ToggleTwice ==
    \A p \in DOMAIN pc :
        SecondToggle(p) =>
            /\ taskLists[loc[p].listName] = obs[p].prev.before
            /\ SameExcept(taskLists, obs[p].pre, loc[p].listName)

\* A task that was incomplete has been toggled twice.
C5_Witness ==
    \E p \in DOMAIN pc :
        /\ SecondToggle(p)
        /\ ~obs[p].prev.before[loc[p].index].Status

\* The get-tasks p has been answered 200, and the operation on its list
\* before it was an add-task answered 200.
GetAfterAdd(p) ==
    /\ Answered(p, "get") /\ resp[p].code = StatusOK
    /\ obs[p].prev.op = "add"
    /\ obs[p].prev.listName = loc[p].listName

\* C6: a get-tasks that follows an add-task of t on its list, with no
\* operation on the list in between, returns the tasks the list held before
\* the add, in their order, and then one more with t's description and status.
C6_AddThenGet ==
    \A p \in DOMAIN pc :
        GetAfterAdd(p) =>
            LET before == obs[p].prev.before
                t == obs[p].prev.t
                got == resp[p].tasks
            IN  /\ Len(got) = Len(before) + 1
                /\ got[Len(got)] = [description |-> t.Description, status |-> t.Status]
                /\ \A j \in 1..Len(before) :
                        got[j] = [description |-> before[j].Description,
                                  status |-> before[j].Status]

\* A completed task was added after an incomplete one, and get-tasks answered.
C6_Witness ==
    \E p \in DOMAIN pc :
        /\ GetAfterAdd(p)
        /\ Len(obs[p].prev.before) = 1
        /\ ~obs[p].prev.before[1].Status
        /\ obs[p].prev.t.Status

\* The tasks sent to list n by the add-task requests of the run, in the
\* order the requests arrived.
AddedTo(n) ==
    LET sel == SelectSeq(sent.adds, LAMBDA a : a.listName = n)
    IN  [i \in 1..Len(sel) |-> sel[i].t]

CountIn(t, ts) == Cardinality({i \in 1..Len(ts) : ts[i] = t})

\* C7: when the add-task requests of a run on existing lists have all
\* returned, each list holds the tasks it began with, then the tasks the
\* requests added to it, each as many times as it was sent.
C7_NoAddLost ==
    (\A p \in DOMAIN pc : pc[p] = "idle") =>
        /\ DOMAIN taskLists = DOMAIN sent.start
        /\ \A n \in DOMAIN sent.start :
            LET old == sent.start[n]
                new == taskLists[n]
                added == AddedTo(n)
                rest == SubSeq(new, Len(old) + 1, Len(new))
            IN  /\ Len(new) = Len(old) + Len(added)
                /\ SubSeq(new, 1, Len(old)) = old
                /\ \A i \in 1..Len(added) : CountIn(added[i], rest) = CountIn(added[i], added)

\* MaxAdds requests have added to the list "work", which began with a task.
C7_Witness ==
    /\ \A p \in DOMAIN pc : pc[p] = "idle"
    /\ Len(sent.start["work"]) = 1
    /\ Len(AddedTo("work")) = MaxAdds
    /\ Len(taskLists["work"]) = MaxAdds + 1

\* The next statement of p reads or writes the map or an array of it.
Accessing(p) ==
    \/ pc[p] \in {"create_check", "create_assign", "get_check", "add_read", "add_assign",
                  "toggle_check", "toggle_flip", "toggle_assign",
                  "delete_check", "delete_shift", "delete_assign"}
    \/ pc[p] = "write" /\ loc[p].op \in {"listall", "get"} /\ loc[p].code = StatusOK

\* C8: at most one handler holds the lock, the mutex is locked exactly
\* when one does, and a handler that is about to read or write the map, or
\* has changed it, holds the lock.
C8_MutualExclusion ==
    /\ Cardinality({p \in DOMAIN pc : locked[p]}) <= 1
    /\ mu <=> \E p \in DOMAIN pc : locked[p]
    /\ \A p \in DOMAIN pc : (Accessing(p) \/ obs[p].changed) => locked[p]

\* A handler is between the two writes of a delete while another waits
\* for the lock.
C8_Witness ==
    \E p, q \in DOMAIN pc :
        /\ p # q
        /\ pc[p] = "delete_assign" /\ locked[p]
        /\ pc[q] = "lock"

\* C9: the responses and the store are those of running the requests one
\* at a time in the order in which they took the lock (a moment between
\* each request's arrival and its response): a response written under the
\* lock is the response of that execution, and the store is its store
\* whenever no handler is between its first and last write.
C9_Linearizable ==
    /\ \A p \in DOMAIN pc : (pc[p] = "ret" /\ locked[p]) => resp[p] = obs[p].expect
    /\ \A p \in DOMAIN pc : (locked[p] /\ pc[p] \in {"write", "ret"}) => taskLists = seq
    /\ (\A p \in DOMAIN pc : ~locked[p]) => taskLists = seq

\* A get-tasks on a list with a task has answered while a delete on that
\* list, which arrived before the answer, waits for the lock.
C9_Witness ==
    \E p, q \in DOMAIN pc :
        /\ p # q
        /\ Answered(p, "get") /\ resp[p].code = StatusOK /\ Len(resp[p].tasks) > 0
        /\ pc[q] = "lock" /\ loc[q].op = "delete" /\ loc[q].listName = loc[p].listName

\* C10: a handler that is writing its response does not hold the lock.
C10_NoWriteUnderLock ==
    \A p \in DOMAIN pc : pc[p] = "write" => ~locked[p]

\* The index segments of the requests that are no number, or a number
\* less than 1.
BadIndexSegments == {<<"0">>, <<"-", "1">>, <<"x">>, <<>>}

\* p's handler is running (it has a request and has not returned).
Running(p) == pc[p] # "idle"

\* p's handler answers, or has answered, an error without having locked.
RefusedUnlocked(p, text) ==
    /\ pc[p] \in {"write", "ret"}
    /\ ~locked[p]
    /\ loc[p].code = StatusBadRequest /\ loc[p].text = text
    /\ ~obs[p].changed

\* C11: a toggle or delete whose index segment is no number or is less
\* than 1, and an add-task whose body does not decode, are answered 400
\* without the lock and without a read of the map, whether the list exists
\* or not; 404 is answered only under the lock, for a well-formed request on
\* an absent list; "index out of range" only under the lock, on a list that
\* exists and is shorter than the index; and a handler that answers an
\* error has changed nothing in the store.
C11_ErrorOrder ==
    \A p \in DOMAIN pc :
        /\ (Running(p) /\ loc[p].op \in {"toggle", "delete"}
                /\ loc[p].seg \in BadIndexSegments)
            => RefusedUnlocked(p, "Invalid task index")
        /\ (Running(p) /\ loc[p].op = "add" /\ ~loc[p].body.valid)
            => RefusedUnlocked(p, "Invalid task data")
        /\ (loc[p].op \in {"get", "add", "toggle", "delete"}
                /\ loc[p].code = StatusNotFound)
            => /\ locked[p]
               /\ loc[p].listName \notin DOMAIN obs[p].pre
               /\ loc[p].op \in {"toggle", "delete"} => loc[p].seg \notin BadIndexSegments
        /\ loc[p].text = "Task index out of range"
            => /\ locked[p]
               /\ loc[p].code = StatusBadRequest
               /\ loc[p].listName \in DOMAIN obs[p].pre
               /\ loc[p].index > Len(obs[p].pre[loc[p].listName])
        /\ (pc[p] = "ret" /\ resp[p].code # StatusOK)
            => /\ ~obs[p].changed
               /\ locked[p] => taskLists = obs[p].pre

\* A toggle with a segment that is no number has been answered 400 on a
\* list that exists and holds a task.
C11_Witness ==
    \E p \in DOMAIN pc :
        /\ Answered(p, "toggle") /\ loc[p].seg = <<"x">>
        /\ resp[p].code = StatusBadRequest
        /\ loc[p].listName \in DOMAIN taskLists
        /\ Len(taskLists[loc[p].listName]) > 0

\* C12: a handler of GET /lists or of GET /lists/{name}/tasks, answering
\* 200 or 404, never writes the store: the store is the one it found when
\* it took the lock, and a get-tasks on an absent name leaves it absent.
C12_ReadOnly ==
    \A p \in DOMAIN pc :
        (Running(p) /\ loc[p].op \in {"listall", "get"}) =>
            /\ ~obs[p].changed
            /\ locked[p] => taskLists = obs[p].pre
            /\ (pc[p] = "ret" /\ resp[p].code = StatusNotFound)
                    => loc[p].listName \notin DOMAIN taskLists

\* A get-tasks on an absent name has been answered 404 while another list
\* holds a task.
C12_Witness ==
    \E p \in DOMAIN pc :
        /\ Answered(p, "get") /\ resp[p].code = StatusNotFound
        /\ loc[p].listName \notin DOMAIN taskLists
        /\ \E n \in DOMAIN taskLists : Len(taskLists[n]) > 0

\* Some create-list request on name n has stored the empty list: it has
\* been answered, or its handler is past the assignment.
Created(n) ==
    \/ creates[n] > 0
    \/ \E p \in DOMAIN pc :
           /\ pc[p] \in {"write", "ret"}
           /\ loc[p].op = "create" /\ loc[p].listName = n
           /\ loc[p].code = StatusOK

\* C13: every list name present in the store is a name for which some
\* earlier create-list request succeeded; no add, toggle, delete, get-tasks
\* or list-all puts a name into the store.
C13_OnlyCreate ==
    \A n \in DOMAIN taskLists : Created(n)

\* C14: a toggle at index i of list L answered 200 negates the status of
\* the task at position i of L and changes nothing else: that task's
\* description, L's length and order, L's other tasks and every other list
\* are as the handler found them.
C14_ToggleFrame ==
    \A p \in DOMAIN pc :
        (Answered(p, "toggle") /\ resp[p].code = StatusOK /\ locked[p]) =>
            LET name == loc[p].listName
                i == loc[p].index
                pre == obs[p].pre
            IN  /\ name \in DOMAIN pre
                /\ i \in 1..Len(pre[name])
                /\ SameExcept(taskLists, pre, name)
                /\ Len(taskLists[name]) = Len(pre[name])
                /\ \A j \in 1..Len(pre[name]) :
                       j # i => taskLists[name][j] = pre[name][j]
                /\ taskLists[name][i].Description = pre[name][i].Description
                /\ taskLists[name][i].Status = ~pre[name][i].Status

\* Index 1 of a list of two incomplete tasks has been toggled: the list is
\* [completed, incomplete].
C14_Witness ==
    \E p \in DOMAIN pc :
        /\ Answered(p, "toggle") /\ resp[p].code = StatusOK /\ locked[p]
        /\ loc[p].index = 1
        /\ loc[p].listName \in DOMAIN obs[p].pre
        /\ Len(obs[p].pre[loc[p].listName]) = 2
        /\ \A j \in 1..2 : ~obs[p].pre[loc[p].listName][j].Status
        /\ taskLists[loc[p].listName][1].Status
        /\ ~taskLists[loc[p].listName][2].Status

\* The (path shape, method) pairs of the five operations under /lists/.
InTable(method, parts) ==
    \/ Len(parts) = 1 /\ method = "POST"
    \/ Len(parts) = 2 /\ parts[2] = "tasks" /\ method \in {"GET", "POST"}
    \/ Len(parts) = 3 /\ parts[2] = "tasks" /\ method \in {"PUT", "DELETE"}

NoName(parts) == Len(parts) < 1 \/ parts[1] = ""

\* Handler p answers code and text without the lock and without a write
\* to the store.
Refuses(p, code, text) ==
    /\ pc[p] \in {"write", "ret"}
    /\ ~locked[p]
    /\ ~obs[p].changed
    /\ loc[p].code = code /\ loc[p].text = text
    /\ pc[p] = "ret" => resp[p].code = code /\ resp[p].text = text

\* C15 as stated: a request to /lists that is not a GET is answered 405,
\* and a request under /lists/ that is none of the five operations, one
\* with an empty list name included, is answered 404; neither takes the
\* lock or changes the store.
C15_Fallback ==
    \A p \in DOMAIN pc :
        /\ (loc[p].route = "/lists" /\ loc[p].method # "GET")
                => Refuses(p, StatusMethodNotAllowed, "Method not allowed")
        /\ (loc[p].route = "/lists/"
                /\ (NoName(loc[p].parts) \/ ~InTable(loc[p].method, loc[p].parts)))
                => Refuses(p, StatusNotFound, "Not found")

\* C15 amended: a request under /lists/ with an empty list name is answered
\* 400 "List name required", whatever its method and its other segments;
\* one that names a list and is none of the five operations is answered
\* 404; a request to /lists that is not a GET is answered 405. None of
\* them takes the lock or changes the store.
C15_FallbackNamed ==
    \A p \in DOMAIN pc :
        /\ (loc[p].route = "/lists" /\ loc[p].method # "GET")
                => Refuses(p, StatusMethodNotAllowed, "Method not allowed")
        /\ (loc[p].route = "/lists/" /\ NoName(loc[p].parts))
                => Refuses(p, StatusBadRequest, "List name required")
        /\ (loc[p].route = "/lists/" /\ ~NoName(loc[p].parts)
                /\ ~InTable(loc[p].method, loc[p].parts))
                => Refuses(p, StatusNotFound, "Not found")

\* A POST with an empty list name, a shape and method of the table
\* otherwise, has been answered 400 while a list holds a task.
C15_Witness ==
    \E p \in DOMAIN pc :
        /\ pc[p] = "ret" /\ loc[p].route = "/lists/"
        /\ loc[p].parts = <<"", "tasks">> /\ loc[p].method = "POST"
        /\ resp[p].code = StatusBadRequest
        /\ \E n \in DOMAIN taskLists : Len(taskLists[n]) > 0

\* C16: in the console variant the names in the store are the names that
\* createTaskList stored, and when addTasks has returned to the menu the
\* store is the one it found if the name typed was absent (or no list
\* existed), and otherwise that store with the task typed appended at the
\* end of the list typed, every other list unchanged.
C16_ConsoleAdd ==
    /\ console.pc # "off" => DOMAIN taskLists = console.made
    /\ (console.pc = "menu" /\ console.choice = "2") =>
            LET pre == console.pre
                name == console.listName
            IN  IF name \in DOMAIN pre
                THEN /\ DOMAIN taskLists = DOMAIN pre
                     /\ taskLists[name] = Append(pre[name], console.task)
                     /\ \A n \in DOMAIN pre \ {name} : taskLists[n] = pre[n]
                ELSE taskLists = pre

\* addTasks has been given an absent name while another list holds a task
\* and has returned to the menu.
C16_Witness ==
    /\ console.pc = "menu" /\ console.choice = "2"
    /\ console.listName \in Names \ DOMAIN taskLists
    /\ \E n \in DOMAIN taskLists : Len(taskLists[n]) > 0

\* The labels of a handler between mu.Lock() and its return.
UnderLock ==
    {"listall", "create_check", "create_assign", "get_check", "add_read", "add_assign",
     "toggle_check", "toggle_flip", "toggle_assign",
     "delete_check", "delete_shift", "delete_assign", "write", "ret"}

\* The mutex is locked exactly when one handler, running between its Lock
\* and its return, has an Unlock pending; an idle or waiting handler has none.
LockDiscipline ==
    /\ mu <=> \E p \in DOMAIN pc : locked[p]
    /\ \A p, q \in DOMAIN pc : (locked[p] /\ locked[q]) => p = q
    /\ \A p \in DOMAIN pc : locked[p] => pc[p] \in UnderLock
    /\ \A p \in DOMAIN pc : (pc[p] \in UnderLock \ {"write", "ret"}) => locked[p]

\* A step acquires the mutex only from a free mutex, for a handler waiting
\* at mu.Lock() that holds nothing; it releases only at the return of the
\* handler that holds it, which leaves the mutex free; and a handler gets
\* to mu.Lock() only at its start.
LockSteps ==
    \A p \in DOMAIN pc :
        /\ (~locked[p] /\ locked'[p]) => (pc[p] = "lock" /\ ~mu /\ mu')
        /\ (locked[p] /\ ~locked'[p])
                => (pc[p] = "ret" /\ pc'[p] = "idle" /\ mu /\ ~mu')
        /\ (pc[p] # "idle" /\ pc'[p] = "idle") => (~locked'[p] /\ (locked[p] => ~mu'))
        /\ (pc[p] # "lock" /\ pc'[p] = "lock") => pc[p] = "idle"

\* C17: every handler that takes the lock, whether it answers 200, 409,
\* 404 or 400, releases it once at its return and takes it once; under
\* the server's scheduling a handler that waits for the lock gets it, and
\* one that holds it returns with the lock released.
C17_LockProgress ==
    /\ []LockDiscipline
    /\ [][LockSteps]_vars
    /\ \A p \in Procs : (pc[p] = "lock") ~> locked[p]
    /\ \A p \in Procs : locked[p] ~> (pc[p] = "idle" /\ ~locked[p])

\* A handler that holds the lock is about to return with 409 while another
\* waits for the lock.
C17_Witness ==
    \E p, q \in DOMAIN pc :
        /\ p # q
        /\ pc[p] = "ret" /\ locked[p] /\ resp[p].code = StatusConflict
        /\ pc[q] = "lock"

\* The number of tasks under name n in store m, none when n is absent.
Length(m, n) == IF n \in DOMAIN m THEN Len(m[n]) ELSE 0

\* What the operation of handler p adds to the length of its list.
Delta(p) ==
    IF resp[p].code # StatusOK THEN 0
    ELSE IF loc[p].op = "add" THEN 1
    ELSE IF loc[p].op = "delete" THEN -1
    ELSE 0

\* A step keeps every name of the store and changes the length of at most
\* one list, by one at most.
StepMonotone ==
    /\ DOMAIN taskLists \subseteq DOMAIN taskLists'
    /\ \A n, k \in DOMAIN taskLists' :
           (Length(taskLists', n) # Length(taskLists, n)
                /\ Length(taskLists', k) # Length(taskLists, k)) => n = k
    /\ \A n \in DOMAIN taskLists' :
           Length(taskLists', n) - Length(taskLists, n) \in {-1, 0, 1}

\* An answered operation that took the lock has kept every name, left the
\* length of every list but its own as it was, and changed its own by +1
\* (add answered 200), -1 (delete answered 200) or 0 (any other).
OperationMonotone ==
    \A p \in DOMAIN pc :
        (pc[p] = "ret" /\ locked[p]) =>
            /\ DOMAIN obs[p].pre \subseteq DOMAIN taskLists
            /\ \A n \in DOMAIN taskLists :
                   Length(taskLists, n) - Length(obs[p].pre, n)
                        = IF n = loc[p].listName THEN Delta(p) ELSE 0
            /\ \A n \in DOMAIN taskLists : Length(taskLists, n) >= 0

\* C18: a list name once in the store stays in it, and each operation
\* changes the length of at most one list: by +1 an add answered 200, by
\* -1 a delete answered 200, by 0 every other and every refused one.
C18_Monotone ==
    /\ [][StepMonotone]_vars
    /\ []OperationMonotone

\* A delete has been answered 200 on a list of two tasks while another
\* list holds a task.
C18_Witness ==
    \E p \in DOMAIN pc :
        /\ Answered(p, "delete") /\ resp[p].code = StatusOK /\ locked[p]
        /\ Length(obs[p].pre, loc[p].listName) = 2
        /\ Length(taskLists, loc[p].listName) = 1
        /\ \E n \in DOMAIN taskLists \ {loc[p].listName} : Len(taskLists[n]) > 0

====
